---- MODULE Spec2Model ----
(***************************************************************************)
(* Engagement ledger of the community feed: likes, denormalized counters,  *)
(* karma events and comment creation, as executed by concurrent request    *)
(* handlers (src/core/views.py) and the model signal handlers              *)
(* (src/core/models.py) over a relational store with READ COMMITTED        *)
(* transactions, row locks and a uniqueness constraint on likes.           *)
(***************************************************************************)
EXTENDS Integers, Sequences, FiniteSets, Bags, TLC

\* ------------------------------------------------------------------ bounds
MaxLikeId == 2        \* Like rows ever inserted
MaxCommentId == 3     \* Comment rows ever inserted (fixture included)
MaxLog == 2            \* ledger operations observed after a snapshot
MaxEvents == 3         \* KarmaEvent rows of a ledger drawn for the read side
MaxTree == 5           \* Comment rows of a table drawn for the tree builder

\* ------------------------------------------------------------ fixed inputs
Users == {"u0", "u1"}
Slots == {"w1", "w2"}                \* request workers
PostIds == {1, 2}
PostPkInputs == {1, 3}               \* pk of like_post: an existing and a missing post
CommentPkInputs == {1, 3}            \* pk of like_comment: existing and missing
PostAuthor == (1 :> "u0") @@ (2 :> "u1")
None == 0                            \* Python None / a null foreign key

VARIABLES
    db,      \* the committed rows of the four tables
    req,     \* per worker: the request it is serving and the handler's locals
    hist     \* observer: a snapshot of db and the ledger operations since

vars == <<db, req, hist>>

\* ---------------------------------------------------------------- helpers
POST_LIKE_POINTS == 5
COMMENT_LIKE_POINTS == 1

\* f"{instance.content_type.upper()}_LIKE"
EventType(ct) == IF ct = "post" THEN "POST_LIKE" ELSE "COMMENT_LIKE"

TargetExists(d, ct, pk) ==
    IF ct = "post" THEN pk \in DOMAIN d.posts ELSE pk \in DOMAIN d.comments

TargetAuthor(d, ct, pk) ==
    IF ct = "post" THEN d.posts[pk].author ELSE d.comments[pk].author

TargetLikeCount(d, ct, pk) ==
    IF ct = "post" THEN d.posts[pk].like_count ELSE d.comments[pk].like_count

\* Like rows matching filter(user=, content_type=, object_id=)
LikesOf(d, u, ct, pk) ==
    {l \in d.likes : l.user = u /\ l.content_type = ct /\ l.object_id = pk}

LikesOn(d, ct, pk) ==
    {l \in d.likes : l.content_type = ct /\ l.object_id = pk}

\* mutant: the filter on source_id alone
KarmaMatching_SourceOnly(d, u, et, sid) == {e \in DOMAIN d.karma : e.source_id = sid}

\* KarmaEvent rows matching filter(user=, event_type=, source_id=)
KarmaMatching(d, u, et, sid) ==
    {e \in DOMAIN d.karma : e.user = u /\ e.event_type = et /\ e.source_id = sid}

RECURSIVE SumCopies(_, _)
SumCopies(b, S) ==
    IF S = {} THEN 0
    ELSE LET e == CHOOSE x \in S : TRUE IN b[e] + SumCopies(b, S \ {e})

\* number of KarmaEvent rows recorded for a target
KarmaCount(d, ct, pk) ==
    SumCopies(d.karma,
       {e \in DOMAIN d.karma : e.event_type = EventType(ct) /\ e.source_id = pk})


\* ----------------------------------------------------- the relational store
\* State after construction (migrations plus fixtures as in tests.py setUp):
\* two posts, one comment on post 1 by another user, no likes, no karma.
InitDb ==
    [posts |-> [p \in PostIds |->
                  [author |-> PostAuthor[p], like_count |-> 0,
                   comment_count |-> IF p = 1 THEN 1 ELSE 0]],
     comments |-> (1 :> [post |-> 1, author |-> "u1", parent |-> None,
                         like_count |-> 0]),
     likes |-> {},
     karma |-> EmptyBag,
     nextLikeId |-> 1,
     nextCommentId |-> 2,
     now |-> 0]

\* One SQL write statement; every statement has the same record shape.
Stmt(t, u, ct, id, val) == [t |-> t, user |-> u, ct |-> ct, id |-> id, val |-> val]

\* mutant: save() of the whole row, with a comment_count loaded earlier
SaveLikeCount_WholeRow(d, ct, pk, v) ==
    IF ct = "post"
    THEN [d EXCEPT !.posts[pk].like_count = v,
                   !.posts[pk].comment_count = IF pk = 1 THEN 1 ELSE 0]
    ELSE [d EXCEPT !.comments[pk].like_count = v]

\* post.save(update_fields=['like_count']) / comment.save(update_fields=[...]):
\* only the like_count column of the row is written.
SaveLikeCount(d, ct, pk, v) ==
    IF ct = "post"
    THEN [d EXCEPT !.posts[pk].like_count = v]
    ELSE [d EXCEPT !.comments[pk].like_count = v]

\* INSERT INTO like: the row gets the next value of the AutoField sequence.
InsertLike(d, u, ct, pk) ==
    [d EXCEPT !.likes = @ \cup {[id |-> d.nextLikeId, user |-> u,
                                  content_type |-> ct, object_id |-> pk]},
              !.nextLikeId = @ + 1]

\* DELETE FROM like WHERE id IN (pk): removes the row if it is still there.
DeleteLike(d, likeId) == [d EXCEPT !.likes = {l \in @ : l.id # likeId}]

\* KarmaEvent.objects.create(user=, event_type=, source_id=, points=);
\* created_at is auto_now_add: the clock (in hours) at the insert
InsertKarma(d, u, ct, pk, points) ==
    [d EXCEPT !.karma = @ (+) SetToBag({[user |-> u, event_type |-> EventType(ct),
                                         source_id |-> pk, points |-> points,
                                         created_at |-> d.now]})]

\* KarmaEvent.objects.filter(user=, event_type=, source_id=).delete():
\* every row matching the filter goes.
DeleteKarma(d, u, ct, pk) ==
    LET gone == KarmaMatching(d, u, EventType(ct), pk)
        keep == DOMAIN d.karma \ gone
    IN [d EXCEPT !.karma = IF keep = {} THEN EmptyBag
                           ELSE [e \in keep |-> d.karma[e]]]

\* INSERT INTO comment
InsertComment(d, post, author, parent) ==
    [d EXCEPT !.comments = @ @@ (d.nextCommentId :>
                  [post |-> post, author |-> author, parent |-> parent,
                   like_count |-> 0]),
              !.nextCommentId = @ + 1]

\* mutant: instance.post.comment_count + 1 written back from the loaded object
IncrementCommentCount_FromSnapshot(d, post, snapshot) ==
    [d EXCEPT !.posts[post].comment_count = snapshot + 1]

\* Post.objects.filter(id=).update(comment_count=F('comment_count') + 1):
\* the increment is evaluated by the store against the stored value.
IncrementCommentCount(d, post, snapshot) ==
    [d EXCEPT !.posts[post].comment_count = @ + 1]

Apply(d, w) ==
    CASE w.t = "ins_like"     -> InsertLike(d, w.user, w.ct, w.id)
      [] w.t = "del_like"     -> DeleteLike(d, w.id)
      [] w.t = "set_count"    -> SaveLikeCount(d, w.ct, w.id, w.val)
      [] w.t = "ins_karma"    -> InsertKarma(d, w.user, w.ct, w.id, w.val)
      [] w.t = "del_karma"    -> DeleteKarma(d, w.user, w.ct, w.id)
      [] w.t = "ins_comment"  -> InsertComment(d, w.id, w.user, w.val)
      [] w.t = "inc_comments" -> IncrementCommentCount(d, w.id, w.val)

RECURSIVE ApplyAll(_, _)
ApplyAll(d, ws) == IF ws = <<>> THEN d ELSE ApplyAll(Apply(d, Head(ws)), Tail(ws))


\* ------------------------------------------------------- request handlers
\* a worker between two requests
IdleReq ==
    [view |-> "idle", pc |-> "idle", user |-> "u0", pk |-> None, parent |-> None,
     snap |-> 0, existing |-> None, cur |-> 0, rows |-> 0,
     atomic |-> FALSE, pending |-> <<>>, limit |-> 0, out |-> <<>>, queries |-> 0]

\* Response(...) bodies of the like views, computed from the handler's locals
\* by the step that returns
Response(code, liked, like_count) ==
    [code |-> code, liked |-> liked, like_count |-> like_count]

\* mutant: a missing target answered like an unlike
NotFoundResponse_Ok == Response(200, FALSE, 0)

\* get_object_or_404 raised Http404
NotFoundResponse == Response(404, FALSE, 0)

ContentType(view) == IF view = "like_post" THEN "post" ELSE "comment"

LikeViews == {"like_post", "like_comment"}

\* mutant: the like views without their "with transaction.atomic():"
TransactionAtomic_Missing(view) == FALSE

\* "with transaction.atomic():" around Like.objects.create in the like views
TransactionAtomic(view) == view \in LikeViews

\* A write statement of worker r: buffered until commit inside an atomic
\* block, applied to the committed rows at once under autocommit.
DbAfter(atomic, w) == IF atomic THEN db ELSE Apply(db, w)
PendingAfter(atomic, pending, w) == IF atomic THEN Append(pending, w) ELSE pending

\* --- row locks, held by open transactions until they commit or roll back
HoldsLikeKey(q, u, ct, pk) ==
    /\ req[q].atomic
    /\ req[q].view \in LikeViews
    /\ req[q].user = u /\ ContentType(req[q].view) = ct /\ req[q].pk = pk
    /\ \E i \in 1..Len(req[q].pending) : req[q].pending[i].t \in {"ins_like", "del_like"}

\* mutant: a writer locks the whole database, whatever row it touches
HoldsTargetRow_DatabaseLock(q, ct, pk) ==
    /\ req[q].atomic
    /\ req[q].view \in LikeViews
    /\ req[q].pc \in {"ps_save", "ps_karma", "like_commit",
                      "pd_save", "pd_karma", "unlike_commit"}

\* mutant: the target row locked from the start of the request, before the
\* Like row is written
HoldsTargetRow_Early(q, ct, pk) ==
    /\ req[q].view \in LikeViews
    /\ ContentType(req[q].view) = ct /\ req[q].pk = pk
    /\ req[q].pc \notin {"idle", "get_target"}

\* select_for_update().get(id=instance.object_id): the lock is on the one
\* row of the liked post or comment
HoldsTargetRow(q, ct, pk) ==
    /\ req[q].atomic
    /\ req[q].view \in LikeViews
    /\ ContentType(req[q].view) = ct /\ req[q].pk = pk
    /\ req[q].pc \in {"ps_save", "ps_karma", "like_commit",
                      "pd_save", "pd_karma", "unlike_commit"}

\* mutant: the Like model without its UniqueConstraint
UniqueViolation_NoConstraint(d, u, ct, pk) == FALSE

\* the unique_user_like_per_object constraint, checked by the store on INSERT
UniqueViolation(d, u, ct, pk) == LikesOf(d, u, ct, pk) # {}

\* --- observer of ledger operations (history only; never read by a handler)
Event(op, rq) ==
    [op |-> op, user |-> rq.user, ct |-> ContentType(rq.view), pk |-> rq.pk]

Logged(ev) == IF hist.mode = "on" THEN [hist EXCEPT !.log = Append(@, ev)] ELSE hist

Quiescent == \A r \in Slots : req[r].pc = "idle"

InFlight == Cardinality({r \in Slots : req[r].pc # "idle"})

\* once observation has begun, at most MaxLog further operations are run
ObservedRoom == hist.mode = "on" => Len(hist.log) + InFlight < MaxLog

TakeSnapshot ==
    /\ hist.mode = "off"
    /\ Quiescent
    /\ hist' = [mode |-> "on", db |-> db, log |-> <<>>]
    /\ UNCHANGED <<db, req>>

\* --- like_post / like_comment ---------------------------------------------
StartLike(r, u, view, pk) ==
    /\ req[r].pc = "idle"
    /\ ObservedRoom
    /\ req' = [req EXCEPT ![r] = [IdleReq EXCEPT !.view = view, !.pc = "get_target",
                                                  !.user = u, !.pk = pk]]
    /\ UNCHANGED <<db, hist>>

\* post = get_object_or_404(Post, pk=pk)
GetTarget(r) ==
    LET rq == req[r]  ct == ContentType(rq.view) IN
    /\ rq.pc = "get_target"
    /\ IF TargetExists(db, ct, rq.pk)
       THEN req' = [req EXCEPT ![r].pc = "check_existing",
                               ![r].snap = TargetLikeCount(db, ct, rq.pk)]
       ELSE req' = [req EXCEPT ![r] = IdleReq]              \* NotFoundResponse
    /\ UNCHANGED <<db, hist>>

\* mutant: the view never finds an existing like
ExistingLike_Blind(d, u, ct, pk) == None

\* existing_like = Like.objects.filter(user=, content_type=, object_id=).first()
ExistingLike(d, u, ct, pk) ==
    LET found == LikesOf(d, u, ct, pk) IN
    IF found = {} THEN None
    ELSE (CHOOSE l \in found : \A m \in found : l.id <= m.id).id

CheckExisting(r) ==
    LET rq == req[r]
        e == ExistingLike(db, rq.user, ContentType(rq.view), rq.pk) IN
    /\ rq.pc = "check_existing"
    /\ req' = [req EXCEPT ![r].existing = e,
                          ![r].pc = IF e # None THEN "unlike_delete" ELSE "like_insert"]
    /\ UNCHANGED <<db, hist>>


\* mutant: uniqueness checked against committed rows only, with no index
\* entry held by the racing uncommitted insert
OthersHoldLikeKey_Unchecked(r, u, ct, pk) == FALSE

\* an INSERT or DELETE on a like key waits for the open transaction that
\* has written that key
OthersHoldLikeKey(r, u, ct, pk) == \E q \in Slots \ {r} : HoldsLikeKey(q, u, ct, pk)
OthersHoldTargetRow(r, ct, pk) == \E q \in Slots \ {r} : HoldsTargetRow(q, ct, pk)

PendingInserts ==
    Cardinality({q \in Slots : \E i \in 1..Len(req[q].pending) :
                                   req[q].pending[i].t = "ins_like"})

\* the except branch of the like views: any exception answers liked=True
\* with the like_count loaded at the start of the request
ExceptResponse(rq) == Response(200, TRUE, rq.snap)

\* return Response({'liked': True, 'like_count': post.like_count}) after
\* post.refresh_from_db()
LikeResponse(d, rq) ==
    Response(200, TRUE, TargetLikeCount(d, ContentType(rq.view), rq.pk))

\* return Response({'liked': False, 'like_count': post.like_count}): the post
\* object is the one loaded by get_object_or_404
UnlikeResponse(rq) == Response(200, FALSE, rq.snap)

\* try: with transaction.atomic(): Like.objects.create(user=, content_type=, object_id=)
LikeInsert(r) ==
    LET rq == req[r]  ct == ContentType(rq.view)
        atomic == TransactionAtomic(rq.view)
        w == Stmt("ins_like", rq.user, ct, rq.pk, 0) IN
    /\ rq.pc = "like_insert"
    /\ ~OthersHoldLikeKey(r, rq.user, ct, rq.pk)
    /\ IF UniqueViolation(db, rq.user, ct, rq.pk)
       THEN \* IntegrityError: the insert is rolled back, no signal is sent
            /\ req' = [req EXCEPT ![r] = IdleReq]         \* ExceptResponse(rq)
            /\ db' = db
            /\ hist' = Logged(Event("dup", rq))
       ELSE /\ db.nextLikeId + PendingInserts <= MaxLikeId
            /\ db' = DbAfter(atomic, w)
            /\ req' = [req EXCEPT ![r].atomic = atomic,
                                  ![r].pending = PendingAfter(atomic, rq.pending, w),
                                  ![r].pc = "ps_lock"]
            /\ hist' = hist

\* create_karma_event_and_update_counts:
\*   post = Post.objects.select_for_update().get(id=instance.object_id)
PostSaveLock(r) ==
    LET rq == req[r]  ct == ContentType(rq.view) IN
    /\ rq.pc = "ps_lock"
    /\ ~OthersHoldTargetRow(r, ct, rq.pk)
    /\ IF TargetExists(db, ct, rq.pk)
       THEN req' = [req EXCEPT ![r].cur = TargetLikeCount(db, ct, rq.pk),
                               ![r].pc = "ps_save"]
       ELSE req' = [req EXCEPT ![r].pc = "like_commit"]    \* DoesNotExist: return
    /\ UNCHANGED <<db, hist>>

\*   post.like_count += 1; post.save(update_fields=['like_count'])
PostSaveCount(r) ==
    LET rq == req[r]
        w == Stmt("set_count", rq.user, ContentType(rq.view), rq.pk, rq.cur + 1) IN
    /\ rq.pc = "ps_save"
    /\ db' = DbAfter(rq.atomic, w)
    /\ req' = [req EXCEPT ![r].pending = PendingAfter(rq.atomic, rq.pending, w),
                          ![r].pc = "ps_karma"]
    /\ hist' = hist

\* mutant: the post reward for every kind of target
Points_Flat(ct) == POST_LIKE_POINTS

Points(ct) == IF ct = "post" THEN POST_LIKE_POINTS ELSE COMMENT_LIKE_POINTS

\* mutant: the event credited to the user who liked
KarmaRecipient_Liker(d, ct, pk, liker) == liker

\* target_user = post.author / comment.author: the author of the liked
\* content, not the liker
KarmaRecipient(d, ct, pk, liker) == TargetAuthor(d, ct, pk)

\*   KarmaEvent.objects.create(user=target_user, event_type=, source_id=, points=)
PostSaveKarma(r) ==
    LET rq == req[r]  ct == ContentType(rq.view)
        w == Stmt("ins_karma", KarmaRecipient(db, ct, rq.pk, rq.user), ct, rq.pk,
                  Points(ct)) IN
    /\ rq.pc = "ps_karma"
    /\ db' = DbAfter(rq.atomic, w)
    /\ req' = [req EXCEPT ![r].pending = PendingAfter(rq.atomic, rq.pending, w),
                          ![r].pc = "like_commit"]
    /\ hist' = hist

\* leaving the atomic block: the transaction commits and its locks go
LikeCommit(r) ==
    LET rq == req[r] IN
    /\ rq.pc = "like_commit"
    /\ db' = ApplyAll(db, rq.pending)
    /\ req' = [req EXCEPT ![r].atomic = FALSE, ![r].pending = <<>>, ![r].pc = "refresh"]
    /\ hist' = Logged(Event("like", rq))

\* post.refresh_from_db(); return LikeResponse(db, rq)
Refresh(r) ==
    LET rq == req[r] IN
    /\ rq.pc = "refresh"
    /\ req' = [req EXCEPT ![r] = IdleReq]
    /\ UNCHANGED <<db, hist>>

\* Model.delete() sends post_delete for the instance it was called on,
\* whether or not the DELETE statement matched a row.
SendsPostDelete(rows) == TRUE

\* existing_like.delete(): DELETE FROM like WHERE id IN (existing_like.pk)
\* inside the transaction that Model.delete() opens
UnlikeDelete(r) ==
    LET rq == req[r]  ct == ContentType(rq.view)
        there == \E l \in db.likes : l.id = rq.existing
        w == Stmt("del_like", rq.user, ct, rq.existing, 0) IN
    /\ rq.pc = "unlike_delete"
    /\ there => ~OthersHoldLikeKey(r, rq.user, ct, rq.pk)
    /\ IF there \/ SendsPostDelete(0)
       THEN req' = [req EXCEPT ![r].atomic = TRUE,
                               ![r].pending = IF there THEN <<w>> ELSE <<>>,
                               ![r].rows = IF there THEN 1 ELSE 0,
                               ![r].pc = "pd_lock"]
       ELSE req' = [req EXCEPT ![r] = IdleReq]              \* UnlikeResponse(rq)
    /\ UNCHANGED <<db, hist>>

\* remove_karma_event_and_update_counts:
\*   post = Post.objects.select_for_update().get(id=instance.object_id)
PostDeleteLock(r) ==
    LET rq == req[r]  ct == ContentType(rq.view) IN
    /\ rq.pc = "pd_lock"
    /\ ~OthersHoldTargetRow(r, ct, rq.pk)
    /\ IF TargetExists(db, ct, rq.pk)
       THEN req' = [req EXCEPT ![r].cur = TargetLikeCount(db, ct, rq.pk),
                               ![r].pc = "pd_save"]
       ELSE req' = [req EXCEPT ![r].pc = "unlike_commit"]  \* DoesNotExist: return
    /\ UNCHANGED <<db, hist>>

\* mutant: like_count - 1 stored without the floor
Max_NoFloor(a, b) == b

Max(a, b) == IF a >= b THEN a ELSE b

\*   post.like_count = max(0, post.like_count - 1); post.save(update_fields=[...])
PostDeleteCount(r) ==
    LET rq == req[r]
        w == Stmt("set_count", rq.user, ContentType(rq.view), rq.pk,
                  Max(0, rq.cur - 1)) IN
    /\ rq.pc = "pd_save"
    /\ db' = DbAfter(rq.atomic, w)
    /\ req' = [req EXCEPT ![r].pending = PendingAfter(rq.atomic, rq.pending, w),
                          ![r].pc = "pd_karma"]
    /\ hist' = hist

\*   KarmaEvent.objects.filter(user=target_user, event_type=, source_id=).delete()
PostDeleteKarma(r) ==
    LET rq == req[r]  ct == ContentType(rq.view)
        w == Stmt("del_karma", TargetAuthor(db, ct, rq.pk), ct, rq.pk, 0) IN
    /\ rq.pc = "pd_karma"
    /\ db' = DbAfter(rq.atomic, w)
    /\ req' = [req EXCEPT ![r].pending = PendingAfter(rq.atomic, rq.pending, w),
                          ![r].pc = "unlike_commit"]
    /\ hist' = hist

\* the delete's transaction commits; return UnlikeResponse(rq)
UnlikeCommit(r) ==
    LET rq == req[r] IN
    /\ rq.pc = "unlike_commit"
    /\ db' = ApplyAll(db, rq.pending)
    /\ req' = [req EXCEPT ![r] = IdleReq]
    /\ hist' = Logged(Event(IF rq.rows = 1 THEN "unlike" ELSE "unlike0", rq))

\* the Response a like view returns when worker r's request ends at its
\* current statement without an unhandled exception
ViewResponse(d, rq) ==
    CASE rq.pc = "get_target"    -> NotFoundResponse
      [] rq.pc = "refresh"       -> LikeResponse(d, rq)
      [] rq.pc = "unlike_commit" -> UnlikeResponse(rq)
      [] OTHER                   -> ExceptResponse(rq)

InLikeTxn(rq) == rq.pc \in {"ps_lock", "ps_save", "ps_karma", "like_commit"}
InUnlikeTxn(rq) == rq.pc \in {"pd_lock", "pd_save", "pd_karma", "unlike_commit"}

\* An exception (store error, timeout, abort) before the commit: the open
\* transaction rolls back.  The like view catches it and answers liked=True;
\* the unlike has no handler and the request fails.
TxnFail(r) ==
    LET rq == req[r] IN
    /\ InLikeTxn(rq) \/ InUnlikeTxn(rq)
    /\ req' = [req EXCEPT ![r] = IdleReq]
    /\ UNCHANGED <<db, hist>>

Init ==
    /\ db = InitDb
    /\ req = [r \in Slots |-> IdleReq]
    /\ hist = [mode |-> "off", db |-> InitDb, log |-> <<>>]

\* --- create_comment ------------------------------------------------------
PostInputs == {1, 2, 3}                \* 3: no such post
ParentInputs == 0..MaxCommentId        \* None, or a comment id (stored or not)

CommentsOf(d, post) == {c \in DOMAIN d.comments : d.comments[c].post = post}

NotYetInserted ==
    Cardinality({q \in Slots : req[q].pc \in {"cc_validate", "cc_insert"}})

StartComment(r, u, post, parent) ==
    /\ req[r].pc = "idle"
    /\ ObservedRoom
    /\ db.nextCommentId + NotYetInserted <= MaxCommentId
    /\ req' = [req EXCEPT ![r] = [IdleReq EXCEPT !.view = "create_comment",
                                     !.pc = "cc_validate", !.user = u,
                                     !.pk = post, !.parent = parent]]
    /\ UNCHANGED <<db, hist>>

\* mutant: a parent field taken as a bare id, neither resolved nor validated
CommentIsValid_PostOnly(d, post, parent) == post \in DOMAIN d.posts

\* mutant: a serializer without its validate() method
CommentIsValid_NoValidate(d, post, parent) ==
    /\ post \in DOMAIN d.posts
    /\ parent # None => parent \in DOMAIN d.comments

\* CommentCreateSerializer: the primary-key fields resolve post and parent,
\* then validate() compares data['parent'].post with data['post']
CommentIsValid(d, post, parent) ==
    /\ post \in DOMAIN d.posts
    /\ parent # None => parent \in DOMAIN d.comments
    /\ parent # None => d.comments[parent].post = post

\* status of the Response of create_comment: HTTP_201_CREATED after
\* serializer.save(), HTTP_400_BAD_REQUEST with serializer.errors otherwise
CommentStatus(d, post, parent) ==
    IF CommentIsValid(d, post, parent) THEN 201 ELSE 400

\* serializer.is_valid(); on failure
\* return Response(serializer.errors, status=HTTP_400_BAD_REQUEST)
ValidateComment(r) ==
    LET rq == req[r] IN
    /\ rq.pc = "cc_validate"
    /\ IF CommentIsValid(db, rq.pk, rq.parent)
       THEN req' = [req EXCEPT ![r].pc = "cc_insert",
                               ![r].snap = db.posts[rq.pk].comment_count]
       ELSE req' = [req EXCEPT ![r] = IdleReq]
    /\ UNCHANGED <<db, hist>>

\* comment = serializer.save(): Comment.objects.create(author=request.user, ...)
SaveComment(r) ==
    LET rq == req[r]
        atomic == TransactionAtomic(rq.view)
        w == Stmt("ins_comment", rq.user, "comment", rq.pk, rq.parent) IN
    /\ rq.pc = "cc_insert"
    /\ db' = DbAfter(atomic, w)
    /\ req' = [req EXCEPT ![r].atomic = atomic,
                          ![r].pending = PendingAfter(atomic, rq.pending, w),
                          ![r].pc = "cc_update"]
    /\ hist' = hist

\* update_post_comment_count (post_save of Comment), then the view returns
\* 201; the UPDATE of the post row waits while a like or unlike transaction
\* holds the row's lock
UpdatePostCommentCount(r) ==
    LET rq == req[r]
        w == Stmt("inc_comments", rq.user, "post", rq.pk, rq.snap) IN
    /\ rq.pc = "cc_update"
    /\ ~OthersHoldTargetRow(r, "post", rq.pk)
    /\ db' = ApplyAll(DbAfter(rq.atomic, w), PendingAfter(rq.atomic, rq.pending, w))
    /\ req' = [req EXCEPT ![r] = IdleReq]
    /\ hist' = hist

\* --- deletion of a comment (Comment.delete(), as issued by CommentAdmin) -----
\* Collector.collect: parent is a ForeignKey('self', on_delete=CASCADE), so
\* the instance is collected with every reply below it.
RECURSIVE Collect(_, _)
Collect(d, S) ==
    LET replies == {c \in DOMAIN d.comments : d.comments[c].parent \in S} IN
    IF replies \subseteq S THEN S ELSE Collect(d, S \cup replies)

\* DELETE FROM comment WHERE id IN (...)
DeleteComments(d, S) ==
    [d EXCEPT !.comments = [c \in DOMAIN @ \ S |-> @[c]]]

\* mutant: no post_delete receiver registered for Comment
DecrementCommentCount_Missing(d, post) == d

\* Post.objects.filter(id=instance.post.id).update(
\*     comment_count=F('comment_count') - 1)
DecrementCommentCount(d, post) ==
    [d EXCEPT !.posts[post].comment_count = @ - 1]

\* post_delete is sent once for every collected instance
RECURSIVE DecreasePostCommentCount(_, _)
DecreasePostCommentCount(d, instances) ==
    IF instances = <<>> THEN d
    ELSE DecreasePostCommentCount(DecrementCommentCount(d, Head(instances).post),
                                  Tail(instances))

RECURSIVE InstancesOf(_, _)
InstancesOf(d, S) ==
    IF S = {} THEN <<>>
    ELSE LET c == CHOOSE x \in S : \A y \in S : x <= y IN
         <<d.comments[c]>> \o InstancesOf(d, S \ {c})

\* comment_count is a PositiveIntegerField: the store rejects a negative value
PositiveIntegerViolation(d) == \E p \in DOMAIN d.posts : d.posts[p].comment_count < 0

\* Comment.delete(): collect, delete the rows and run the receivers in one
\* transaction; an IntegrityError rolls all of it back.
DeleteComment(c) ==
    /\ Quiescent
    /\ ObservedRoom
    /\ c \in DOMAIN db.comments
    /\ LET S == Collect(db, {c})
           after == DecreasePostCommentCount(DeleteComments(db, S), InstancesOf(db, S)) IN
       /\ db' = IF PositiveIntegerViolation(after) THEN db ELSE after
       /\ hist' = Logged([op |-> "delete_comment", user |-> db.comments[c].author,
                          ct |-> "comment", pk |-> c])
    /\ req' = req

\* --- the karma ledger read side: leaderboard and user_karma -----------------
\* fixture of LeaderboardTestCase.setUp: seven users, three posts by the
\* first three, three comments on the first post by the next three
TestUsers == {"u0", "u1", "u2", "u3", "u4", "u5", "u6"}

FixtureDb ==
    [posts |-> <<[author |-> "u0", like_count |-> 0, comment_count |-> 3],
                 [author |-> "u1", like_count |-> 0, comment_count |-> 0],
                 [author |-> "u2", like_count |-> 0, comment_count |-> 0]>>,
     comments |-> <<[post |-> 1, author |-> "u3", parent |-> None, like_count |-> 0],
                    [post |-> 1, author |-> "u4", parent |-> None, like_count |-> 0],
                    [post |-> 1, author |-> "u5", parent |-> None, like_count |-> 0]>>,
     likes |-> {},
     karma |-> EmptyBag,
     nextLikeId |-> 1,
     nextCommentId |-> 4,
     now |-> 0]

FixtureTargets == ({"post"} \X {1, 2, 3}) \cup ({"comment"} \X {1, 2, 3})

\* timedelta(hours=24)
WINDOW_HOURS == 24

\* since = timezone.now() - timedelta(hours=24)
Since(d) == d.now - WINDOW_HOURS

\* mutant: created_at__gt, a window that is open at its lower end
InWindow_Exclusive(d, e) == e.created_at > Since(d)

\* created_at__gte=since
InWindow(d, e) == e.created_at >= Since(d)

\* Sum('points') over a set of ledger rows (rows kept as a bag)
RECURSIVE SumPoints(_, _)
SumPoints(b, S) ==
    IF S = {} THEN 0
    ELSE LET e == CHOOSE x \in S : TRUE IN e.points * b[e] + SumPoints(b, S \ {e})

EventsOf(d, u) == {e \in DOMAIN d.karma : e.user = u}

\* mutant: the sum taken over every event of the user
Karma24h_AllTime(d, u) == SumPoints(d.karma, EventsOf(d, u))

\* mutant: the total taken over the window only
TotalKarma_Windowed(d, u) == SumPoints(d.karma, {e \in EventsOf(d, u) : InWindow(d, e)})

\* the windowed sum of one user's events
Karma24h(d, u) == SumPoints(d.karma, {e \in EventsOf(d, u) : InWindow(d, e)})

\* User.objects.filter(karma_events__created_at__gte=since)
\*     .annotate(karma_24h=Sum('karma_events__points')): one row per user
\* with an event in the window, the sum taken over the joined (filtered) events
LeaderboardRows(d) ==
    {[user |-> u, karma_24h |-> Karma24h(d, u)] :
        u \in {e.user : e \in {x \in DOMAIN d.karma : InWindow(d, x)}}}

\* mutant: ascending order
Descending_Reversed(s) == \A i, j \in DOMAIN s : i < j => s[i].karma_24h <= s[j].karma_24h

\* .order_by('-karma_24h')
Descending(s) == \A i, j \in DOMAIN s : i < j => s[i].karma_24h >= s[j].karma_24h

\* the orders the store may return the rows in: rows of equal karma_24h
\* have no order defined by the query
RECURSIVE RowOrders(_)
RowOrders(rows) ==
    IF rows = {} THEN {<<>>}
    ELSE UNION {{<<x>> \o t : t \in RowOrders(rows \ {x})} : x \in rows}

Orderings(rows) == {s \in RowOrders(rows) : Descending(s)}

Min(a, b) == IF a <= b THEN a ELSE b

\* [:limit]
Take(s, limit) == [i \in 1..Min(limit, Len(s)) |-> s[i]]

\* KarmaEvent.get_leaderboard_last_24h(limit)
GetLeaderboardLast24h(d, limit) == {Take(s, limit) : s \in Orderings(LeaderboardRows(d))}

\* queries issued when a serializer renders one row
LeaderboardRowQueries_PerRow(row) == 1                  \* mutant: a lookup per row
LeaderboardRowQueries(row) == 0

RECURSIVE SumOver(_, _)
SumOver(s, i) == IF i > Len(s) THEN 0 ELSE s[i] + SumOver(s, i + 1)

\* leaderboard view: the queryset is evaluated once by "if not
\* leaderboard_users" and LeaderboardSerializer reads the cached rows
LeaderboardQueries(rows) ==
    1 + SumOver([i \in 1..Len(rows) |-> LeaderboardRowQueries(rows[i])], 1)

\* get_leaderboard_last_24h(limit=5), as the view calls it
DEFAULT_LIMIT == 5

LimitInputs == {1, 2, DEFAULT_LIMIT}

Leaderboard(r, limit) ==
    /\ req[r].pc = "idle"
    /\ \E rows \in GetLeaderboardLast24h(db, limit) :
          req' = [req EXCEPT ![r] = [IdleReq EXCEPT !.view = "leaderboard",
                                        !.pc = "answered", !.limit = limit,
                                        !.out = rows,
                                        !.queries = LeaderboardQueries(rows)]]
    /\ UNCHANGED <<db, hist>>

\* mutant: the user's sum taken without the created_at filter
GetUserKarmaLast24h_Unfiltered(d, u) == SumPoints(d.karma, EventsOf(d, u))

\* KarmaEvent.get_user_karma_last_24h(user): ...aggregate(total=Sum('points'))
\* ['total'] or 0
GetUserKarmaLast24h(d, u) == Karma24h(d, u)

\* KarmaEvent.objects.filter(user=user).aggregate(total=Sum('points'))['total'] or 0
TotalKarma(d, u) == SumPoints(d.karma, EventsOf(d, u))

\* queries issued by one .aggregate(total=Sum('points')) call
AggregateQueries(d, S) == 1

\* queries of get_user_karma_last_24h(user): its one aggregate
WindowedSumQueries(d, u) == AggregateQueries(d, {e \in EventsOf(d, u) : InWindow(d, e)})

\* user_karma view for request.user: the windowed sum, then the sum over
\* every event of the user, one aggregate query each
UserKarma(r, u) ==
    /\ req[r].pc = "idle"
    /\ req' = [req EXCEPT ![r] = [IdleReq EXCEPT !.view = "user_karma",
                                     !.pc = "answered", !.user = u,
                                     !.out = [karma_24h |-> GetUserKarmaLast24h(db, u),
                                              total_karma |-> TotalKarma(db, u),
                                              queries_24h |-> WindowedSumQueries(db, u)],
                                     !.queries = WindowedSumQueries(db, u)
                                                 + AggregateQueries(db, EventsOf(db, u))]]
    /\ UNCHANGED <<db, hist>>

\* the Response has been sent
Return(r) ==
    /\ req[r].pc = "answered"
    /\ req' = [req EXCEPT ![r] = IdleReq]
    /\ UNCHANGED <<db, hist>>

\* ledgers the store may hold: events for the fixture's targets, created
\* 25 hours, 24 hours or 1 hour before the clock
BoardNow == 25
CreatedInputs == {0, 1, 24}

EventFor(d, ct, pk, t) ==
    [user |-> TargetAuthor(d, ct, pk), event_type |-> EventType(ct),
     source_id |-> pk, points |-> Points(ct), created_at |-> t]

EventPool == {EventFor(FixtureDb, tg[1], tg[2], t) : tg \in FixtureTargets, t \in CreatedInputs}

RECURSIVE BagOfSeq(_)
BagOfSeq(s) == IF s = <<>> THEN EmptyBag ELSE SetToBag({Head(s)}) (+) BagOfSeq(Tail(s))

Ledgers == {BagOfSeq(s) : s \in UNION {[1..n -> EventPool] : n \in 0..MaxEvents}}

InitBoard ==
    /\ \E ledger \in Ledgers : db = [FixtureDb EXCEPT !.karma = ledger, !.now = BoardNow]
    /\ req = [r \in Slots |-> IdleReq]
    /\ hist = [mode |-> "off", db |-> FixtureDb, log |-> <<>>]

NextBoard ==
    \/ \E limit \in LimitInputs : Leaderboard("w1", limit)
    \/ \E u \in TestUsers : UserKarma("w1", u)
    \/ Return("w1")

\* ------------------------------------------- likes created one after another
\* Like.objects.create(user=, content_type=, object_id=) as the test cases
\* call it, inside the test's transaction: the row is inserted and the
\* post_save handler adds 1 to the target's like_count and appends the
\* karma event; a second like of the same user on the same target violates
\* unique_together and leaves the store as it was
LikePool ==
    {<<"u1", "post", 1>>, <<"u2", "post", 1>>,
     <<"u0", "comment", 1>>, <<"u1", "comment", 1>>, <<"u2", "comment", 1>>,
     <<"u0", "post", 2>>, <<"u0", "comment", 2>>}

CreateLikeDb(d, u, ct, pk) ==
    LET d1 == InsertLike(d, u, ct, pk) IN
    IF ~ TargetExists(d1, ct, pk) THEN d1
    ELSE InsertKarma(SaveLikeCount(d1, ct, pk, TargetLikeCount(d1, ct, pk) + 1),
                     KarmaRecipient(d1, ct, pk, u), ct, pk, Points(ct))

\* ------------------------------------------- a whole toggle, run on its own
\* existing_like.delete() followed by remove_karma_event_and_update_counts,
\* with no other request in between
UnlikeDb(d, l) ==
    LET ct == l.content_type  pk == l.object_id
        d1 == DeleteLike(d, l.id) IN
    IF ~ TargetExists(d1, ct, pk) THEN d1
    ELSE DeleteKarma(SaveLikeCount(d1, ct, pk, Max(0, TargetLikeCount(d1, ct, pk) - 1)),
                     TargetAuthor(d1, ct, pk), ct, pk)

\* like_post / like_comment from get_object_or_404 to the Response, with
\* no other request in between
ToggleDb(d, u, ct, pk) ==
    IF ~ TargetExists(d, ct, pk) THEN d
    ELSE IF LikesOf(d, u, ct, pk) = {} THEN CreateLikeDb(d, u, ct, pk)
    ELSE UnlikeDb(d, CHOOSE l \in LikesOf(d, u, ct, pk) : TRUE)

CreateLike(u, ct, pk) ==
    /\ Quiescent
    /\ LikesOf(db, u, ct, pk) = {}
    /\ db' = CreateLikeDb(db, u, ct, pk)
    /\ UNCHANGED <<req, hist>>

\* the clock moves on by a whole window
Tick ==
    /\ Quiescent
    /\ db.now = 0
    /\ db' = [db EXCEPT !.now = WINDOW_HOURS]
    /\ UNCHANGED <<req, hist>>

InitLedger ==
    /\ db = FixtureDb
    /\ req = [r \in Slots |-> IdleReq]
    /\ hist = [mode |-> "off", db |-> FixtureDb, log |-> <<>>]

NextLedger ==
    \/ \E l \in LikePool : CreateLike(l[1], l[2], l[3])
    \/ Tick
    \/ Leaderboard("w1", DEFAULT_LIMIT)
    \/ Return("w1")

\* ------------------------------------------------------ the comment tree
\* mutant: only the first two comments of the table are fetched
AllComments_Page(d, post, i) ==
    SelectSeq([k \in 1..Min(Len(d.comments), 2) |-> k],
              LAMBDA c : d.comments[c].post = post)

\* Comment.objects.filter(post=post).select_related('author')
\*     .order_by('created_at'): the ids of the post's comments, oldest first
\* (ids are handed out in creation order)
RECURSIVE AllComments(_, _, _)
AllComments(d, post, i) ==
    IF i > Len(d.comments) THEN <<>>
    ELSE (IF d.comments[i].post = post THEN <<i>> ELSE <<>>)
         \o AllComments(d, post, i + 1)

\* first pass: comment.prefetched_replies = []; comment_dict[comment.id] = comment
FirstPass(all) ==
    [roots |-> <<>>, replies |-> [c \in {all[i] : i \in DOMAIN all} |-> <<>>]]

\* mutant: every comment is taken for a root comment
IsReply_Never(d, c) == FALSE

\* if comment.parent_id:
IsReply(d, c) == d.comments[c].parent # None

\* mutant: the new entry is put in front
Attach_Front(list, c) == <<c>> \o list

\* list.append(comment)
Attach(list, c) == Append(list, c)

\* mutant: a reply whose parent is not in comment_dict becomes a root
OrphanPlacement_Root(tree, c) == [tree EXCEPT !.roots = Attach(@, c)]

\* "if parent:" has no else branch: a reply whose parent is not in
\* comment_dict is put nowhere
OrphanPlacement(tree, c) == tree

\* second pass, one comment: attach it to its parent's prefetched_replies
\* or to root_comments
Place(d, tree, c) ==
    IF IsReply(d, c)
    THEN LET parent == d.comments[c].parent IN
         IF parent \in DOMAIN tree.replies
         THEN [tree EXCEPT !.replies[parent] = Attach(@, c)]
         ELSE OrphanPlacement(tree, c)
    ELSE [tree EXCEPT !.roots = Attach(@, c)]

RECURSIVE SecondPass(_, _, _, _)
SecondPass(d, all, i, tree) ==
    IF i > Len(all) THEN tree
    ELSE SecondPass(d, all, i + 1, Place(d, tree, all[i]))

BuildTree(d, all) == SecondPass(d, all, 1, FirstPass(all))

\* mutant: get_replies answers no replies
SerializeComments_Flat(tree, list) ==
    [i \in 1..Len(list) |-> [id |-> list[i], replies |-> <<>>]]

\* CommentSerializer(list, many=True).data: each comment with its id and,
\* from get_replies, the serialized prefetched_replies
RECURSIVE SerializeComments(_, _)
SerializeComments(tree, list) ==
    [i \in 1..Len(list) |->
        [id |-> list[i], replies |-> SerializeComments(tree, tree.replies[list[i]])]]

\* mutant: only the direct parent is counted
Depth_OneLevel(d, c) == IF d.comments[c].parent = None THEN 0 ELSE 1

\* Comment.depth: the number of ancestors, each found by loading .parent
RECURSIVE Depth(_, _)
Depth(d, c) ==
    IF d.comments[c].parent = None \/ d.comments[c].parent \notin DOMAIN d.comments
    THEN 0
    ELSE 1 + Depth(d, d.comments[c].parent)

\* the comments that get serialized: those hanging from a root
RECURSIVE Serialized(_, _)
Serialized(tree, list) ==
    IF list = <<>> THEN <<>>
    ELSE <<Head(list)>> \o Serialized(tree, tree.replies[Head(list)])
         \o Serialized(tree, Tail(list))

\* queries issued while one comment is serialized: get_is_liked runs
\* Like.objects.filter(...).exists(), and the depth field loads one parent
\* per ancestor (only author is select_related)
CommentQueries(d, c) == 1 + Depth(d, c)

\* queries of PostCommentsView.get: the post, the comments,
\* PostSerializer.get_is_liked, and those of each serialized comment
PostCommentsQueries(d, tree) ==
    LET ser == Serialized(tree, tree.roots) IN
    1 + 1 + 1 + SumOver([i \in 1..Len(ser) |-> CommentQueries(d, ser[i])], 1)

TreePkInputs == {1, 2, 4}

\* PostCommentsView.get
PostComments(r, pk) ==
    /\ req[r].pc = "idle"
    /\ req' = [req EXCEPT ![r] =
          [IdleReq EXCEPT !.view = "post_comments", !.pc = "answered", !.pk = pk,
             !.out = IF pk \in DOMAIN db.posts
                     THEN LET tree == BuildTree(db, AllComments(db, pk, 1)) IN
                          [status |-> 200,
                           comments |-> SerializeComments(tree, tree.roots)]
                     ELSE [status |-> 404, comments |-> <<>>],
             !.queries = IF pk \in DOMAIN db.posts
                         THEN PostCommentsQueries(db, BuildTree(db, AllComments(db, pk, 1)))
                         ELSE 1]]
    /\ UNCHANGED <<db, hist>>

\* comment tables the store may hold: each row on one of two posts, its
\* parent null or a row created before it (on either post)
TreeTables ==
    UNION {{t \in [1..n -> [post : {1, 2}, author : {"u0"}, parent : 0..(n - 1),
                             like_count : {0}]] :
               \A i \in 1..n : t[i].parent < i} : n \in 0..MaxTree}

InitTree ==
    /\ \E t \in TreeTables :
          db = [FixtureDb EXCEPT !.comments = t, !.nextCommentId = Len(t) + 1]
    /\ req = [r \in Slots |-> IdleReq]
    /\ hist = [mode |-> "off", db |-> FixtureDb, log |-> <<>>]

NextTree ==
    \/ \E pk \in TreePkInputs : PostComments("w1", pk)
    \/ Return("w1")

LikeStep(r) ==
    \/ \E u \in Users : \E pk \in PostPkInputs : StartLike(r, u, "like_post", pk)
    \/ \E u \in Users : \E pk \in CommentPkInputs : StartLike(r, u, "like_comment", pk)
    \/ GetTarget(r)
    \/ CheckExisting(r)
    \/ LikeInsert(r)
    \/ PostSaveLock(r)
    \/ PostSaveCount(r)
    \/ PostSaveKarma(r)
    \/ LikeCommit(r)
    \/ Refresh(r)
    \/ UnlikeDelete(r)
    \/ PostDeleteLock(r)
    \/ PostDeleteCount(r)
    \/ PostDeleteKarma(r)
    \/ UnlikeCommit(r)
    \/ TxnFail(r)

CommentStep(r) ==
    \/ \E u \in Users : \E post \in PostInputs : \E parent \in ParentInputs :
          StartComment(r, u, post, parent)
    \/ ValidateComment(r)
    \/ SaveComment(r)
    \/ UpdatePostCommentCount(r)

\* comment creations and requests for a post's comments, served concurrently
ThreadStep(r) ==
    \/ CommentStep(r)
    \/ \E pk \in TreePkInputs : PostComments(r, pk)
    \/ Return(r)

NextThread == \E r \in Slots : ThreadStep(r)

NextLike == \E r \in Slots : LikeStep(r)

NextComment == \E r \in Slots : CommentStep(r)

\* one worker: requests are served one after the other
NextSeq == LikeStep("w1")

Next == NextLike \/ NextComment

\* concurrent like, unlike and comment requests
Spec == Init /\ [][Next]_vars

\* concurrent like and unlike requests
SpecLike == Init /\ [][NextLike]_vars

\* the same, with an observation started at some quiescent state
SpecHist == Init /\ [][NextLike \/ TakeSnapshot]_vars

\* like and unlike requests served sequentially, observed
SpecSeq == Init /\ [][NextSeq \/ TakeSnapshot]_vars

\* concurrent comment creations
SpecComment == Init /\ [][NextComment]_vars

\* comment creations and deletions served one after the other, observed
NextCommentSeq ==
    \/ CommentStep("w1")
    \/ \E c \in 1..MaxCommentId : DeleteComment(c)

SpecCommentSeq == Init /\ [][NextCommentSeq \/ TakeSnapshot]_vars

\* leaderboard and user_karma requests over the ledgers the store may hold
\* a finite set of like, unlike and comment requests, served concurrently:
\* the ledger operations are counted from the start
InitObserved ==
    /\ db = InitDb
    /\ req = [r \in Slots |-> IdleReq]
    /\ hist = [mode |-> "on", db |-> InitDb, log |-> <<>>]

\* one worker serves like and unlike requests while the other serves
\* creations of root comments
RootCommentStep(r) ==
    \/ \E u \in Users : \E post \in PostInputs : StartComment(r, u, post, None)
    \/ ValidateComment(r)
    \/ SaveComment(r)
    \/ UpdatePostCommentCount(r)

NextMix == LikeStep("w1") \/ RootCommentStep("w2")

\* every worker serves like and unlike requests and creations of root
\* comments
NextFair == \E r \in Slots : LikeStep(r) \/ RootCommentStep(r)

SpecMix == InitObserved /\ [][NextMix]_vars

\* the steps by which a request that has started goes on; a failure of the
\* store (TxnFail) is not among them
Progress(r) ==
    \/ GetTarget(r) \/ CheckExisting(r) \/ LikeInsert(r)
    \/ PostSaveLock(r) \/ PostSaveCount(r) \/ PostSaveKarma(r)
    \/ LikeCommit(r) \/ Refresh(r)
    \/ UnlikeDelete(r) \/ PostDeleteLock(r) \/ PostDeleteCount(r)
    \/ PostDeleteKarma(r) \/ UnlikeCommit(r)
    \/ ValidateComment(r) \/ SaveComment(r) \/ UpdatePostCommentCount(r)

\* each worker keeps running the request it serves; a request waiting for a lock gets it once it is
\* released (the store queues the waiters of a lock), hence strong fairness
SpecFair == InitObserved /\ [][NextFair]_vars /\ \A r \in Slots : SF_vars(Progress(r))

SpecBoard == InitBoard /\ [][NextBoard]_vars

SpecLedger == InitLedger /\ [][NextLedger]_vars

SpecTree == InitTree /\ [][NextTree]_vars

SpecThread == Init /\ [][NextThread]_vars

\* ================================================================ claims
LikeTargets == {<<"post", 1>>, <<"post", 2>>, <<"comment", 1>>}

\* KarmaEvent rows with (recipient = author of T, kind of T, source id = T)
KarmaFor(d, ct, pk) ==
    SumCopies(d.karma, KarmaMatching(d, TargetAuthor(d, ct, pk), EventType(ct), pk))

Observing == hist.mode = "on" /\ Quiescent

LogOps == {hist.log[i].op : i \in 1..Len(hist.log)}
LogUsers == {hist.log[i].user : i \in 1..Len(hist.log)}
LogTargets == {<<hist.log[i].ct, hist.log[i].pk>> : i \in 1..Len(hist.log)}
LogCount(op) == Cardinality({i \in 1..Len(hist.log) : hist.log[i].op = op})

\* C1: in every quiescent state each target's like_count equals the number
\* of Like rows addressing it.
C1_LikeCountEqualsLikeRows ==
    Quiescent =>
       \A t \in LikeTargets :
          TargetLikeCount(db, t[1], t[2]) = Cardinality(LikesOn(db, t[1], t[2]))

\* C2: in every committed state, for every target the number of KarmaEvent
\* rows for (author, kind, source id) equals the number of Like rows on it.
C2_KarmaEventsEqualLikeRows ==
    \A t \in LikeTargets :
       KarmaFor(db, t[1], t[2]) = Cardinality(LikesOn(db, t[1], t[2]))

\* C3: a like by u on T followed by an unlike by u on T leaves the Like
\* rows, the like counters and the KarmaEvents as they were before the like.
C3_LikeThenUnlikeRestores ==
    (/\ Observing
     /\ Len(hist.log) = 2
     /\ hist.log[1].op = "like" /\ hist.log[2].op = "unlike"
     /\ Cardinality(LogUsers) = 1 /\ Cardinality(LogTargets) = 1)
    => /\ db.likes = hist.db.likes
       /\ \A t \in LikeTargets :
             TargetLikeCount(db, t[1], t[2]) = TargetLikeCount(hist.db, t[1], t[2])
       /\ db.karma = hist.db.karma

\* C4: after k likes and m unlikes by distinct users on one target have all
\* committed, the target's like counter is its initial value + k - m.
C4_NoLostUpdate ==
    (/\ Observing
     /\ Len(hist.log) >= 1
     /\ LogOps \subseteq {"like", "unlike"}
     /\ Cardinality(LogUsers) = Len(hist.log)
     /\ Cardinality(LogTargets) = 1)
    => \A t \in LogTargets :
          TargetLikeCount(db, t[1], t[2]) =
             TargetLikeCount(hist.db, t[1], t[2]) + LogCount("like") - LogCount("unlike")

\* C5: two or more CreateLike attempts by u on a target u does not yet like,
\* sequential or racing, end with exactly one Like row for (u, target), one
\* more KarmaEvent for the target and its like counter incremented by 1.
C5_IdempotentLike ==
    (/\ Observing
     /\ Len(hist.log) >= 2
     /\ LogOps \subseteq {"like", "dup"}
     /\ Cardinality(LogUsers) = 1 /\ Cardinality(LogTargets) = 1
     /\ \A i \in 1..Len(hist.log) :
           LikesOf(hist.db, hist.log[i].user, hist.log[i].ct, hist.log[i].pk) = {})
    => \A i \in 1..Len(hist.log) :
          LET u == hist.log[i].user  ct == hist.log[i].ct  pk == hist.log[i].pk IN
          /\ Cardinality(LikesOf(db, u, ct, pk)) = 1
          /\ Cardinality(db.likes) = Cardinality(hist.db.likes) + 1
          /\ KarmaCount(db, ct, pk) = KarmaCount(hist.db, ct, pk) + 1
          /\ BagCardinality(db.karma) = BagCardinality(hist.db.karma) + 1
          /\ TargetLikeCount(db, ct, pk) = TargetLikeCount(hist.db, ct, pk) + 1

\* C5 witness: two attempts by one user on one target raced, the second was
\* refused by the store, and both requests are over.
C5_Witness ==
    /\ Observing
    /\ Len(hist.log) = 2
    /\ hist.log[1].op = "like" /\ hist.log[2].op = "dup"
    /\ hist.log[1].user = hist.log[2].user
    /\ LikesOf(hist.db, hist.log[1].user, hist.log[1].ct, hist.log[1].pk) = {}
    /\ hist.db.likes # {}

C6_Unique ==
    \A l1, l2 \in db.likes :
       (l1.user = l2.user /\ l1.content_type = l2.content_type
          /\ l1.object_id = l2.object_id) => l1.id = l2.id

C6_DuplicateInsertFails ==
    \A r \in Slots :
       (/\ req[r].pc = "like_insert"
        /\ LikesOf(db, req[r].user, ContentType(req[r].view), req[r].pk) # {}
        /\ req'[r] # req[r])
       => /\ db' = db
          /\ req'[r].pc = "idle"

\* C6: there is at most one Like row per (user, kind, target id), and an
\* insert that would create a second one fails at the store: the request ends
\* and no Like row, counter or KarmaEvent changes.
C6_UniqueLikePerUserTarget == []C6_Unique /\ [][C6_DuplicateInsertFails]_vars

\* C6 witness: a duplicate insert was refused while another user's like on
\* the same target is stored.
C6_Witness ==
    /\ hist.mode = "on"
    /\ \E i \in 1..Len(hist.log) :
          /\ hist.log[i].op = "dup"
          /\ Cardinality(LikesOf(db, hist.log[i].user, hist.log[i].ct, hist.log[i].pk)) = 1
          /\ Cardinality(LikesOn(db, hist.log[i].ct, hist.log[i].pk)) = 2

\* C7: an unlike whose Like row is already gone when its DELETE runs changes
\* no like counter and deletes no KarmaEvent.
C7_AbsentRowUnlikeIsNoOp ==
    [][\A r \in Slots :
          (InUnlikeTxn(req[r]) /\ req[r].rows = 0 /\ req'[r] # req[r])
          => /\ \A t \in LikeTargets :
                   TargetLikeCount(db', t[1], t[2]) = TargetLikeCount(db, t[1], t[2])
             /\ db'.karma = db.karma]_vars

\* what one step does to the three records of target t
C8_StepIsAtomic(t) ==
    LET before == LikesOn(db, t[1], t[2])
        after == LikesOn(db', t[1], t[2])
        c == TargetLikeCount(db, t[1], t[2])
        cc == TargetLikeCount(db', t[1], t[2])
        k == KarmaCount(db, t[1], t[2])
        kk == KarmaCount(db', t[1], t[2])
        phantom == \E r \in Slots :
                      /\ InUnlikeTxn(req[r]) /\ req[r].rows = 0 /\ req'[r] # req[r]
                      /\ <<ContentType(req[r].view), req[r].pk>> = t
    IN
    \* a Like row appears together with its increment and its KarmaEvent
    /\ after \ before # {} =>
          /\ Cardinality(after) = Cardinality(before) + 1 /\ before \subseteq after
          /\ cc = c + 1
          /\ kk = k + 1
    \* a Like row goes together with the decrement and the KarmaEvent delete
    /\ before \ after # {} =>
          /\ Cardinality(before) = Cardinality(after) + 1 /\ after \subseteq before
          /\ cc = Max(0, c - 1)
          /\ kk < k \/ k = 0
    \* no increment and no KarmaEvent without the Like row
    /\ (cc > c \/ kk > k) => after \ before # {}
    \* no decrement and no KarmaEvent delete outside an unlike's commit
    /\ (cc < c \/ kk < k) =>
          /\ before \ after # {} \/ phantom
          /\ cc = Max(0, c - 1)
          /\ kk < k \/ k = 0

\* C8: the Like-row insert/delete, the counter update and the KarmaEvent
\* insert/delete of one like or unlike become visible in one step or not at
\* all; no step shows only some of them, whether the request commits or fails.
C8_LikeUnitIsAtomic == [][\A t \in LikeTargets : C8_StepIsAtomic(t)]_vars

\* C8 witness: a like has inserted its row, written the counter and created
\* the KarmaEvent inside its transaction, and none of it is stored yet.
C8_Witness ==
    \E r \in Slots :
       /\ req[r].pc = "like_commit"
       /\ Len(req[r].pending) = 3
       /\ LikesOf(db, req[r].user, ContentType(req[r].view), req[r].pk) = {}
       /\ TargetLikeCount(db, ContentType(req[r].view), req[r].pk) = req[r].cur
       /\ \E q \in Slots \ {r} : req[q].pc = "check_existing"

\* C9: the comment insert and the comment_count increment are one atomic
\* unit: every state another request can read has comment_count equal to the
\* number of stored comments of the post.
C9_CommentInsertAndCountAtomic ==
    \A p \in PostIds : db.posts[p].comment_count = Cardinality(CommentsOf(db, p))

PendingIncrements(p) ==
    Cardinality({r \in Slots : req[r].pc = "cc_update" /\ req[r].pk = p})

\* C10: every comment creation adds exactly one to the post's comment_count,
\* whatever the interleaving: the count is the number of stored comments minus
\* the creations whose increment is still to run, so n committed creations
\* raise it by exactly n.
C10_ConcurrentCommentsCounted ==
    \A p \in PostIds :
       db.posts[p].comment_count + PendingIncrements(p) = Cardinality(CommentsOf(db, p))

\* C10 witness: two creations on post 1 run concurrently; both have inserted
\* their comment and both increments are still to run.
C10_Witness ==
    /\ \A r \in Slots : req[r].pc = "cc_update" /\ req[r].pk = 1
    /\ Cardinality(CommentsOf(db, 1)) = 3
    /\ db.posts[1].comment_count = 1

\* C11: after any sequence of comment creations and deletions (a deletion
\* takes the comment's replies with it) every post's comment_count equals
\* the number of comments stored for the post and is not negative.
C11_CommentCountEqualsComments ==
    Quiescent =>
       \A p \in PostIds :
          /\ db.posts[p].comment_count = Cardinality(CommentsOf(db, p))
          /\ db.posts[p].comment_count >= 0

\* a comment with a reply and a reply to that reply was deleted: all three
\* rows are gone and the post counts no comment
C11_Witness ==
    /\ Observing
    /\ hist.log = <<[op |-> "delete_comment", user |-> "u1", ct |-> "comment", pk |-> 1]>>
    /\ DOMAIN hist.db.comments = {1, 2, 3}
    /\ hist.db.comments[2].parent = 1 /\ hist.db.comments[3].parent = 2
    /\ hist.db.posts[1].comment_count = 3
    /\ DOMAIN db.comments = {}
    /\ db.posts[1].comment_count = 0

\* C12: no like counter is negative in any reachable state, and an unlike
\* that finds the target's counter at 0 stores 0 again: the value it writes
\* is accepted by the PositiveIntegerField column, so no error is raised.
C12_NonNegative ==
    \A t \in LikeTargets : TargetLikeCount(db, t[1], t[2]) >= 0

C12_FloorAtZero(r) ==
    LET rq == req[r]  ct == ContentType(rq.view) IN
    /\ (rq.pc = "pd_save" /\ req'[r].pc = "pd_karma") =>
          LET w == req'[r].pending[Len(req'[r].pending)] IN
          /\ w.t = "set_count" /\ w.val >= 0
          /\ rq.cur = 0 => w.val = 0
    /\ (rq.pc = "unlike_commit" /\ req'[r].pc = "idle"
          /\ TargetLikeCount(db, ct, rq.pk) = 0) =>
          TargetLikeCount(db', ct, rq.pk) = 0

C12_LikeCountNeverNegative ==
    []C12_NonNegative /\ [][\A r \in Slots : C12_FloorAtZero(r)]_vars

\* an unlike has locked a target whose counter is 0 and has written 0
C12_Witness ==
    \E r \in Slots :
       /\ req[r].pc = "pd_karma" /\ req[r].cur = 0
       /\ TargetLikeCount(db, ContentType(req[r].view), req[r].pk) = 0
       /\ req[r].pending[Len(req[r].pending)].val = 0

\* C13: every step that stores a new Like row stores with it exactly one
\* new KarmaEvent: recipient the author of the liked target (for a comment
\* the comment's author), kind POST_LIKE worth 5 for a post and COMMENT_LIKE
\* worth 1 for a comment, source id the target id.
C13_EventFor(l) ==
    [user |-> IF l.content_type = "post" THEN db.posts[l.object_id].author
              ELSE db.comments[l.object_id].author,
     event_type |-> IF l.content_type = "post" THEN "POST_LIKE" ELSE "COMMENT_LIKE",
     source_id |-> l.object_id,
     points |-> IF l.content_type = "post" THEN 5 ELSE 1,
     created_at |-> db.now]

C13_InsertAppendsOneEvent ==
    \A l \in db'.likes \ db.likes :
       db'.karma = db.karma (+) SetToBag({C13_EventFor(l)})

C13_OneKarmaEventPerLike == [][C13_InsertAppendsOneEvent]_vars

\* u0, the author of post 1, has liked comment 1 written by u1 under that
\* post: u1 holds one COMMENT_LIKE event worth 1 and u0 holds none
C13_Witness ==
    /\ \E l \in db.likes : l.user = "u0" /\ l.content_type = "comment" /\ l.object_id = 1
    /\ db.karma = SetToBag({[user |-> "u1", event_type |-> "COMMENT_LIKE",
                             source_id |-> 1, points |-> 1,
                             created_at |-> db.now]})

\* worker r's request runs to its end in this step and answers with the
\* Response of its view; requests cut short by a store failure (TxnFail) are
\* not answers of the toggle: a rolled back unlike records no event
Answers(r) ==
    /\ req[r].pc \in {"get_target", "like_insert", "refresh", "unlike_commit"}
    /\ req'[r].pc = "idle"
    /\ req[r].pc = "unlike_commit" => hist'.log # hist.log

\* the request of worker r is the only one since the observation began
FirstObserved(r) ==
    /\ hist.mode = "on"
    /\ Len(hist'.log) = 1

\* C14: in a sequential execution a toggle on an existing target removes
\* the user's Like and answers liked=false when the Like existed before the
\* call, and otherwise creates it and answers liked=true; the liked flag
\* tells whether the Like row exists after the call.
C14_Toggle(r) ==
    LET rq == req[r]  ct == ContentType(rq.view)
        had == LikesOf(hist.db, rq.user, ct, rq.pk) # {}
        has == LikesOf(db', rq.user, ct, rq.pk) # {}
        resp == ViewResponse(db, rq) IN
    (Answers(r) /\ FirstObserved(r) /\ TargetExists(db, ct, rq.pk)) =>
        /\ resp.code = 200
        /\ had => (~has /\ resp.liked = FALSE)
        /\ ~had => (has /\ resp.liked = TRUE)
        /\ resp.liked = has

C14_ToggleAnswersLikeState == [][C14_Toggle("w1")]_vars

\* u0 has liked post 1 and then toggled again: the observation began with
\* the Like stored, one unlike ran, and the row is gone
C14_Witness ==
    /\ Observing
    /\ LikesOf(hist.db, "u0", "post", 1) # {}
    /\ hist.log = <<[op |-> "unlike", user |-> "u0", ct |-> "post", pk |-> 1]>>
    /\ LikesOf(db, "u0", "post", 1) = {}

\* C15: the like_count answered by a like or an unlike is the target's
\* stored counter after the operation's own increment or decrement; an
\* unlike of the only like on a target answers 0.
C15_Updated(r) ==
    LET rq == req[r]  ct == ContentType(rq.view) IN
    (Answers(r) /\ rq.pc \in {"refresh", "unlike_commit"}) =>
        ViewResponse(db, rq).like_count = TargetLikeCount(db', ct, rq.pk)

C15_AnswersUpdatedCount == [][C15_Updated("w1")]_vars

\* C16: a like insertion that hits the uniqueness constraint because a
\* concurrent insertion of the same (user, target) won answers success with
\* liked=true and the current value of the counter, and adds no KarmaEvent
\* and changes no counter.
C16_Loser(r) ==
    LET rq == req[r]  ct == ContentType(rq.view)
        resp == ViewResponse(db, rq) IN
    (Answers(r) /\ rq.pc = "like_insert") =>
        /\ resp.code = 200 /\ resp.liked = TRUE
        /\ resp.like_count = TargetLikeCount(db, ct, rq.pk)
        /\ db' = db

C16_LostRaceAnswersCurrentState == [][\A r \in Slots : C16_Loser(r)]_vars

\* C17: a toggle on a post or comment id that does not exist answers
\* not-found and leaves the Like rows, every counter and the KarmaEvents
\* unchanged: the request ends at get_object_or_404 and writes nothing.
C17_Missing(r) ==
    LET rq == req[r]  ct == ContentType(rq.view) IN
    (/\ rq.view \in LikeViews /\ rq.pc # "idle"
     /\ ~TargetExists(db, ct, rq.pk)
     /\ req'[r] # req[r]) =>
        /\ rq.pc = "get_target"
        /\ Answers(r)
        /\ ViewResponse(db, rq) = NotFoundResponse
        /\ ViewResponse(db, rq).code = 404
        /\ db' = db

C17_MissingTargetNotFound == [][\A r \in Slots : C17_Missing(r)]_vars

\* a toggle on an absent id is about to look its target up while a Like,
\* a counter and a KarmaEvent are stored
C17_Witness ==
    \E r \in Slots :
       /\ req[r].pc = "get_target"
       /\ ~TargetExists(db, ContentType(req[r].view), req[r].pk)
       /\ db.likes # {} /\ db.karma # EmptyBag

\* C18: a comment creation whose parent is a comment of another post than
\* the one given answers a validation error (400), creates no comment and
\* changes no comment_count.
C18_CrossPost(r) ==
    LET rq == req[r] IN
    (/\ rq.view = "create_comment" /\ rq.pc = "cc_validate"
     /\ rq.pk \in DOMAIN db.posts
     /\ rq.parent \in DOMAIN db.comments
     /\ db.comments[rq.parent].post # rq.pk
     /\ req'[r] # req[r]) =>
        /\ CommentStatus(db, rq.pk, rq.parent) = 400
        /\ req'[r] = IdleReq
        /\ db' = db

C18_CrossPostParentRejected == [][\A r \in Slots : C18_CrossPost(r)]_vars

\* a reply to comment 1 of post 1 is submitted for post 2 and is about to be
\* validated
C18_Witness ==
    \E r \in Slots :
       /\ req[r].view = "create_comment" /\ req[r].pc = "cc_validate"
       /\ req[r].pk = 2 /\ req[r].parent = 1
       /\ 1 \in DOMAIN db.comments /\ db.comments[1].post = 1

\* C19: a comment creation for a post id that does not exist answers a
\* not-found error (404, not a validation error) and creates no comment.
C19_MissingPost(r) ==
    LET rq == req[r] IN
    (/\ rq.view = "create_comment" /\ rq.pc = "cc_validate"
     /\ rq.pk \notin DOMAIN db.posts
     /\ req'[r] # req[r]) =>
        /\ CommentStatus(db, rq.pk, rq.parent) = 404
        /\ req'[r] = IdleReq
        /\ db' = db

C19_MissingPostNotFound == [][\A r \in Slots : C19_MissingPost(r)]_vars

\* C20: in every state reached through comment creations, each stored
\* comment that has a parent has a stored parent on the same post.
C20_ParentOnSamePost ==
    \A c \in DOMAIN db.comments :
       db.comments[c].parent # None =>
          /\ db.comments[c].parent \in DOMAIN db.comments
          /\ db.comments[db.comments[c].parent].post = db.comments[c].post

\* a reply to a reply is stored
C20_Witness ==
    \E c \in DOMAIN db.comments :
       /\ db.comments[c].parent # None
       /\ db.comments[c].parent \in DOMAIN db.comments
       /\ db.comments[db.comments[c].parent].parent # None

\* --- the karma ledger read side
\* events of user u created at or after now - 24h, and the sum of their points
WindowEvents(u) ==
    {e \in DOMAIN db.karma : e.user = u /\ e.created_at >= db.now - 24}

WindowSum(u) == SumPoints(db.karma, WindowEvents(u))

Qualifying == {u \in TestUsers : WindowEvents(u) # {}}

AnsweredBoard(r) == req[r].view = "leaderboard" /\ req[r].pc = "answered"

\* C21: the leaderboard lists exactly users with an event in the window,
\* each once and with the sum of the points of their events in the window,
\* in non-increasing order of that sum, cut to the first limit entries of
\* that order; users without an event in the window are absent.
C21_LeaderboardIsWindowedTopN ==
    \A r \in Slots :
       AnsweredBoard(r) =>
          LET out == req[r].out
              listed == {out[i].user : i \in DOMAIN out} IN
          /\ Len(out) = Min(req[r].limit, Cardinality(Qualifying))
          /\ listed \subseteq Qualifying
          /\ Cardinality(listed) = Len(out)
          /\ \A i \in DOMAIN out : out[i].karma_24h = WindowSum(out[i].user)
          /\ \A i, j \in DOMAIN out : i < j => out[i].karma_24h >= out[j].karma_24h
          /\ \A u \in Qualifying \ listed :
                \A i \in DOMAIN out : out[i].karma_24h >= WindowSum(u)

\* two users have events in the window, the first of the board also an
\* older event that is not summed, and a leaderboard cut to one row was
\* answered
C21_Witness ==
    \E r \in Slots :
       /\ AnsweredBoard(r) /\ req[r].limit = 1 /\ Len(req[r].out) = 1
       /\ Cardinality(Qualifying) = 2
       /\ \E e \in DOMAIN db.karma :
             /\ e.created_at < db.now - 24
             /\ e.user = req[r].out[1].user

AnsweredKarma(r) == req[r].view = "user_karma" /\ req[r].pc = "answered"

\* age of a ledger event in hours
Age(e) == db.now - e.created_at

\* C23: with the 24 hour window, an event 25 hours old counts neither for
\* the leaderboard nor for a user's karma of the last 24 hours, and an
\* event 1 hour old or exactly 24 hours old counts for both.
C23_WindowBoundary ==
    \A r \in Slots :
       LET counted(u) == {e \in DOMAIN db.karma : e.user = u /\ Age(e) \in {1, 24}}
           old(u) == {e \in DOMAIN db.karma : e.user = u /\ Age(e) = 25} IN
       /\ AnsweredKarma(r) =>
             req[r].out.karma_24h = SumPoints(db.karma, counted(req[r].user))
       /\ AnsweredBoard(r) =>
             LET out == req[r].out IN
             /\ \A i \in DOMAIN out :
                   /\ counted(out[i].user) # {}
                   /\ out[i].karma_24h = SumPoints(db.karma, counted(out[i].user))
             /\ Len(out) < req[r].limit =>
                   \A u \in TestUsers :
                      counted(u) # {} => \E i \in DOMAIN out : out[i].user = u

\* the ledger holds an event 25 hours old of one user, one exactly 24
\* hours old of a second and one 1 hour old of a third, and the board
\* answered lists the second and the third only
C23_Witness ==
    \E r \in Slots :
       /\ AnsweredBoard(r) /\ Len(req[r].out) = 2 /\ req[r].limit = 5
       /\ \E a, b, c \in DOMAIN db.karma :
             /\ Age(a) = 25 /\ Age(b) = 24 /\ Age(c) = 1
             /\ Cardinality({a.user, b.user, c.user}) = 3
             /\ {req[r].out[i].user : i \in {1, 2}} = {b.user, c.user}

\* C24: the karma answer of a user carries the sum of the points of the
\* user's events in the window as karma_24h and the sum of the points of
\* all the user's events as total_karma, each 0 when there is no such event.
C24_UserKarmaSums ==
    \A r \in Slots :
       AnsweredKarma(r) =>
          LET u == req[r].user
              all == {e \in DOMAIN db.karma : e.user = u} IN
          /\ req[r].out.karma_24h = WindowSum(u)
          /\ req[r].out.total_karma = SumPoints(db.karma, all)
          /\ WindowEvents(u) = {} => req[r].out.karma_24h = 0
          /\ all = {} => req[r].out.total_karma = 0

\* a user with events inside and outside the window was answered two
\* different sums
C24_Witness ==
    \E r \in Slots :
       /\ AnsweredKarma(r)
       /\ req[r].out.karma_24h > 0
       /\ req[r].out.total_karma > req[r].out.karma_24h

\* no event of the user at all: both sums are 0
C24_WitnessEmpty ==
    \E r \in Slots :
       /\ AnsweredKarma(r)
       /\ \A e \in DOMAIN db.karma : e.user # req[r].user
       /\ req[r].out = [karma_24h |-> 0, total_karma |-> 0, queries_24h |-> 1]

PostLikesReceived(u) ==
    Cardinality({l \in db.likes : l.content_type = "post"
                    /\ l.object_id \in DOMAIN db.posts
                    /\ db.posts[l.object_id].author = u})

CommentLikesReceived(u) ==
    Cardinality({l \in db.likes : l.content_type = "comment"
                    /\ l.object_id \in DOMAIN db.comments
                    /\ db.comments[l.object_id].author = u})

Score(u) == 5 * PostLikesReceived(u) + 1 * CommentLikesReceived(u)

Liked == {u \in TestUsers : Score(u) > 0}

\* the Like rows without their ids
LikeSet == {<<l.user, l.content_type, l.object_id>> : l \in db.likes}

ExampleLikes ==
    {<<"u1", "post", 1>>, <<"u2", "post", 1>>,
     <<"u0", "comment", 1>>, <<"u1", "comment", 1>>, <<"u2", "comment", 1>>,
     <<"u0", "post", 2>>, <<"u0", "comment", 2>>}

ExampleBoard ==
    <<[user |-> "u0", karma_24h |-> 10], [user |-> "u1", karma_24h |-> 5],
      [user |-> "u3", karma_24h |-> 3], [user |-> "u4", karma_24h |-> 1]>>

\* C22: after likes created inside the window and no unlike, the board
\* lists the authors who received likes, each with 5 x (likes on their
\* posts) + 1 x (likes on their comments), in descending order of that
\* score and up to its limit; for the likes of the example and a limit of
\* 5 it is exactly [(u0,10), (u1,5), (u3,3), (u4,1)].
C22_BoardScoresLikes ==
    \A r \in Slots :
       AnsweredBoard(r) =>
          LET out == req[r].out
              listed == {out[i].user : i \in DOMAIN out} IN
          /\ Len(out) = Min(req[r].limit, Cardinality(Liked))
          /\ listed \subseteq Liked
          /\ Cardinality(listed) = Len(out)
          /\ \A i \in DOMAIN out : out[i].karma_24h = Score(out[i].user)
          /\ \A i, j \in DOMAIN out : i < j => out[i].karma_24h >= out[j].karma_24h
          /\ \A u \in Liked \ listed :
                \A i \in DOMAIN out : out[i].karma_24h >= Score(u)
          /\ (LikeSet = ExampleLikes /\ req[r].limit = 5) => out = ExampleBoard

\* the likes of the example were created, a window's length went by, and
\* the board of five was answered
C22_Witness ==
    \E r \in Slots :
       /\ AnsweredBoard(r) /\ req[r].limit = 5
       /\ LikeSet = ExampleLikes
       /\ db.now = 24
       /\ req[r].out = ExampleBoard

\* --- the comment tree
AnsweredComments(r) ==
    req[r].view = "post_comments" /\ req[r].pc = "answered" /\ req[r].out.status = 200

\* the comments of the post asked for: the set supplied to the builder
Supplied(r) == {c \in DOMAIN db.comments : db.comments[c].post = req[r].pk}

ParentOf(c) == db.comments[c].parent

\* comments of the supplied set whose parent is set but not supplied
Orphans(r) == {c \in Supplied(r) : ParentOf(c) # None /\ ParentOf(c) \notin Supplied(r)}

\* ids of a serialized forest, parents before children, left to right
RECURSIVE Flatten(_)
Flatten(forest) ==
    IF forest = <<>> THEN <<>>
    ELSE <<Head(forest).id>> \o Flatten(Head(forest).replies) \o Flatten(Tail(forest))

\* the pairs <<p, c>> with c in the child list of node p
RECURSIVE ChildPairs(_)
ChildPairs(forest) ==
    IF forest = <<>> THEN {}
    ELSE {<<Head(forest).id, Head(forest).replies[i].id>> :
              i \in DOMAIN Head(forest).replies}
         \cup ChildPairs(Head(forest).replies) \cup ChildPairs(Tail(forest))

Ids(forest) == {forest[i].id : i \in DOMAIN forest}

Occurrences(seq, x) == Cardinality({i \in DOMAIN seq : seq[i] = x})

\* C25: a request for a post with its comments issues exactly 2 store
\* queries, one for the post and one for its comments, whatever the
\* number and nesting of the comments.  (Does not hold: see C25_Witness.)
C25_TwoQueries ==
    \A r \in Slots : AnsweredComments(r) => req[r].queries = 2

\* the comments of the example were fetched with 12 queries
C25_Witness ==
    \E r \in Slots :
       /\ AnsweredComments(r)
       /\ Len(Flatten(req[r].out.comments)) = 5
       /\ req[r].queries = 12

\* C27: when every parent of a supplied comment is supplied too, the
\* roots of the forest are exactly the comments without parent, c is in
\* the child list of p exactly when the parent of c is p, and every
\* supplied comment occurs exactly once; for the example [R1, R2,
\* reply(R1), reply(R1), reply(first reply)] there are two roots, R1 has
\* two children and R1's first child has one child.
C27_ForestMatchesParents ==
    \A r \in Slots :
       (AnsweredComments(r) /\ Orphans(r) = {}) =>
          LET forest == req[r].out.comments IN
          /\ Ids(forest) = {c \in Supplied(r) : ParentOf(c) = None}
          /\ ChildPairs(forest) = {<<ParentOf(c), c>> : c \in {x \in Supplied(r) : ParentOf(x) # None}}
          /\ \A c \in Supplied(r) : Occurrences(Flatten(forest), c) = 1
          /\ \A i \in DOMAIN Flatten(forest) : Flatten(forest)[i] \in Supplied(r)
          /\ (/\ Supplied(r) = 1..5
              /\ <<ParentOf(1), ParentOf(2), ParentOf(3), ParentOf(4), ParentOf(5)>>
                    = <<None, None, 1, 1, 3>>)
             => /\ Len(forest) = 2
                /\ forest[1].id = 1 /\ Len(forest[1].replies) = 2
                /\ forest[1].replies[1].id = 3
                /\ Len(forest[1].replies[1].replies) = 1

\* the forest of the example was answered
C27_Witness ==
    \E r \in Slots :
       /\ AnsweredComments(r)
       /\ Supplied(r) = 1..5
       /\ <<ParentOf(1), ParentOf(2), ParentOf(3), ParentOf(4), ParentOf(5)>>
             = <<None, None, 1, 1, 3>>
       /\ Flatten(req[r].out.comments) = <<1, 3, 5, 4, 2>>

\* the store with the comments of S taken off every post, so that no
\* request is supplied with them
Without(S) ==
    [db EXCEPT !.comments = [c \in DOMAIN @ |->
        IF c \in S THEN [@[c] EXCEPT !.post = 0] ELSE @[c]]]

\* C28: a supplied comment whose parent is set but not supplied is
\* neither a root nor in any child list, and the forest is the one built
\* from the supplied comments without it.
C28_OrphanExcluded ==
    \A r \in Slots :
       AnsweredComments(r) =>
          \A o \in Orphans(r) :
             LET forest == req[r].out.comments
                 rest == Without({o})
                 tree == BuildTree(rest, AllComments(rest, req[r].pk, 1)) IN
             /\ o \notin Ids(forest)
             /\ \A pc \in ChildPairs(forest) : pc[2] # o
             /\ Occurrences(Flatten(forest), o) = 0
             /\ forest = SerializeComments(tree, tree.roots)

\* a post has a root with a reply, and a reply to a comment of another
\* post that itself has a reply; only the root and its reply are answered
C28_Witness ==
    \E r \in Slots :
       /\ AnsweredComments(r)
       /\ Len(Flatten(req[r].out.comments)) = 2
       /\ Len(req[r].out.comments) = 1
       /\ \E o \in Orphans(r) : \E c \in Supplied(r) : ParentOf(c) = o

\* the subsequence of the supplied comments, oldest first, whose parent is p
RECURSIVE ChildrenInOrder(_, _, _)
ChildrenInOrder(r, p, i) ==
    IF i > Len(db.comments) THEN <<>>
    ELSE (IF i \in Supplied(r) /\ ParentOf(i) = p THEN <<i>> ELSE <<>>)
         \o ChildrenInOrder(r, p, i + 1)

RECURSIVE InInputOrder(_, _, _)
InInputOrder(r, forest, p) ==
    /\ [i \in DOMAIN forest |-> forest[i].id] = ChildrenInOrder(r, p, 1)
    /\ \A i \in DOMAIN forest : InInputOrder(r, forest[i].replies, forest[i].id)

\* C29: the root list is the subsequence of the supplied comments without
\* parent, in their ascending creation order, and the child list of every
\* node is the subsequence of its children in that order.
C29_InputOrderPreserved ==
    \A r \in Slots :
       AnsweredComments(r) => InInputOrder(r, req[r].out.comments, None)

\* two roots, the older with two replies, the post's comments created in
\* between comments of another post
C29_Witness ==
    \E r \in Slots :
       /\ AnsweredComments(r)
       /\ Len(req[r].out.comments) = 2
       /\ Len(req[r].out.comments[1].replies) = 2
       /\ Supplied(r) # DOMAIN db.comments

\* --- locks
Target(r) == <<ContentType(req[r].view), req[r].pk>>

\* every other request in flight is on another target than r's
OthersElsewhere(r) ==
    \A q \in Slots \ {r} :
       req[q].pc = "idle" \/ req[q].view \notin LikeViews \/ Target(q) # Target(r)

\* the like sequence can still hand out an id (or the insert fails anyway)
InsertRoom(r) ==
    \/ UniqueViolation(db, req[r].user, ContentType(req[r].view), req[r].pk)
    \/ db.nextLikeId + PendingInserts <= MaxLikeId

KarmaSum(d, u) == SumPoints(d.karma, EventsOf(d, u))

\* C31: an unlike by one user on a target that another user likes too
\* leaves the KarmaEvent of the other user's like in place: the events for
\* the target go down by one and the author's karma by one reward (5 for a
\* post, 1 for a comment).
C31_Unlike(r) ==
    LET rq == req[r]  ct == ContentType(rq.view)
        others == {l \in LikesOn(db, ct, rq.pk) : l.user # rq.user} IN
    (/\ rq.view \in LikeViews
     /\ rq.pc = "unlike_commit" /\ req'[r].pc = "idle"
     /\ db'.likes # db.likes
     /\ others # {}
     /\ KarmaFor(db, ct, rq.pk) = Cardinality(LikesOn(db, ct, rq.pk))) =>
        LET author == TargetAuthor(db, ct, rq.pk) IN
        /\ KarmaFor(db', ct, rq.pk) = KarmaFor(db, ct, rq.pk) - 1
        /\ KarmaFor(db', ct, rq.pk) >= Cardinality(others)
        /\ KarmaSum(db', author) = KarmaSum(db, author) - Points(ct)

C31_UnlikeKeepsOthersKarma == [][C31_Unlike("w1")]_vars

\* --- other targets
AllTargets ==
    ({"post"} \X DOMAIN db.posts) \cup ({"comment"} \X DOMAIN db.comments)

\* the stored rows without the ids of the Like rows
Rows(d) ==
    [posts |-> d.posts, comments |-> d.comments, karma |-> d.karma,
     likes |-> {<<l.user, l.content_type, l.object_id>> : l \in d.likes}]

\* a step that changes stored rows is the commit of a like or unlike
\* request; everything off its target stays as it was
C32_Frame ==
    db' # db =>
       \E r \in Slots :
          LET rq == req[r]  ct == ContentType(rq.view) IN
          /\ rq.view \in LikeViews /\ req'[r] # rq
          /\ \A t \in AllTargets \ {<<ct, rq.pk>>} :
                /\ TargetLikeCount(db', t[1], t[2]) = TargetLikeCount(db, t[1], t[2])
                /\ \A l \in db.likes \cup db'.likes :
                      (l.content_type = t[1] /\ l.object_id = t[2])
                         => (l \in db.likes /\ l \in db'.likes)
          /\ \A e \in DOMAIN db.karma \cup DOMAIN db'.karma :
                (e.event_type # EventType(ct) \/ e.source_id # rq.pk)
                   => CopiesIn(e, db'.karma) = CopiesIn(e, db.karma)
          /\ \A p \in DOMAIN db.posts :
                db'.posts[p].comment_count = db.posts[p].comment_count
          /\ DOMAIN db'.posts = DOMAIN db.posts
          /\ DOMAIN db'.comments = DOMAIN db.comments

\* two operations on two different targets, both done: the stored rows are
\* those of the two toggles run one after the other, in either order
C32_Commute ==
    (/\ Observing
     /\ Len(hist.log) = 2
     /\ LogOps \subseteq {"like", "unlike"}
     /\ Cardinality(LogTargets) = 2) =>
        LET a == hist.log[1]  b == hist.log[2] IN
        /\ Rows(db) = Rows(ToggleDb(ToggleDb(hist.db, a.user, a.ct, a.pk), b.user, b.ct, b.pk))
        /\ Rows(db) = Rows(ToggleDb(ToggleDb(hist.db, b.user, b.ct, b.pk), a.user, a.ct, a.pk))

\* C32: a like or unlike on a target leaves the like counter of every
\* other target, every KarmaEvent of another (kind, source id) - a post
\* and a comment of the same numeric id are different targets - and every
\* comment_count as they were; operations on two different targets end in
\* the same stored rows in either order.
C32_OtherTargetsUntouched == [][C32_Frame]_vars /\ []C32_Commute

\* comment 1 carried a like; it was unliked and post 1, of the same
\* numeric id, was liked
C32_Witness ==
    /\ Observing
    /\ Len(hist.log) = 2
    /\ LogOps = {"like", "unlike"}
    /\ LogTargets = {<<"post", 1>>, <<"comment", 1>>}
    /\ KarmaFor(hist.db, "comment", 1) = 1
    /\ KarmaFor(db, "post", 1) = 1
    /\ KarmaFor(db, "comment", 1) = 0

\* --- likes and comments on one post
\* C33: a like or unlike on a post and a comment creation on the same post,
\* run concurrently, lose neither update: the step that stores the new
\* like_count leaves comment_count as it is and the step that stores the
\* new comment_count leaves like_count as it is, and once both are done
\* like_count counts the Like rows and comment_count the comments.
C33_StepKeepsOtherCounter ==
    \A p \in PostIds :
       /\ db'.posts[p].like_count # db.posts[p].like_count
             => db'.posts[p].comment_count = db.posts[p].comment_count
       /\ db'.posts[p].comment_count # db.posts[p].comment_count
             => db'.posts[p].like_count = db.posts[p].like_count

C33_BothCounted ==
    Quiescent =>
       \A p \in PostIds :
          /\ db.posts[p].like_count = Cardinality(LikesOn(db, "post", p))
          /\ db.posts[p].comment_count = Cardinality(CommentsOf(db, p))

C33_LikeAndCommentBothKept == [][C33_StepKeepsOtherCounter]_vars /\ []C33_BothCounted

\* a like on post 1 holds the row's lock and has its new like_count
\* pending while a comment on post 1 is inserted and waits to be counted
C33_Witness ==
    \E r, q \in Slots :
       /\ db.posts[1].comment_count = 1
       /\ req[r].view = "like_post" /\ req[r].pk = 1 /\ req[r].pc = "like_commit"
       /\ req[q].view = "create_comment" /\ req[q].pk = 1 /\ req[q].pc = "cc_update"

\* --- the answer of a like whose transaction failed
\* C34: with no other request of the same user on the target, a toggle
\* answers liked=true only if the user's Like row on the target is in the
\* committed store when it answers; an insertion rolled back for another
\* reason than the duplicate constraint does not answer liked=true.
C34_Liked(r) ==
    LET rq == req[r]  ct == ContentType(rq.view) IN
    (/\ rq.view \in LikeViews
     /\ rq.pc \in {"like_insert", "refresh"} \/ InLikeTxn(rq)
     /\ req'[r].pc = "idle"
     /\ \A q \in Slots \ {r} :
           req[q].pc = "idle" \/ req[q].user # rq.user \/ Target(q) # Target(r)
     /\ ViewResponse(db, rq).liked = TRUE) =>
        LikesOf(db', rq.user, ct, rq.pk) # {}

C34_LikedOnlyIfStored == [][\A r \in Slots : C34_Liked(r)]_vars

\* --- termination
\* C35: under fair scheduling every like, unlike and comment request that
\* has started comes to its end, committed or failed: taking the lock of
\* the Like row and then the lock of the target row never leaves two
\* requests waiting for each other.
C35_EveryRequestEnds ==
    \A r \in Slots : (req[r].pc # "idle") ~> (req[r].pc = "idle")

\* a like has inserted its Like row and waits for the target row's lock,
\* which a like of another user on the same target holds
C35_Witness ==
    \E r, q \in Slots :
       /\ req[r].pc = "ps_lock"
       /\ HoldsLikeKey(r, req[r].user, ContentType(req[r].view), req[r].pk)
       /\ req[q].pc \in {"ps_save", "ps_karma", "like_commit"}
       /\ Target(q) = Target(r)
       /\ ~ ENABLED PostSaveLock(r)

\* --- comments created by create_comment only
\* C36: when every comment was created by create_comment, the forest
\* answered for a post holds every comment of the post exactly once and
\* nothing else: no comment of the post has a parent outside the post, so
\* the builder drops none.
C36_Answer(r) ==
    (/\ req[r].pc = "idle"
     /\ req'[r].view = "post_comments"
     /\ req'[r].out.status = 200) =>
        LET flat == Flatten(req'[r].out.comments)
            supplied == CommentsOf(db, req'[r].pk) IN
        /\ \A c \in supplied : Occurrences(flat, c) = 1
        /\ Len(flat) = Cardinality(supplied)
        /\ \A c \in supplied :
              db.comments[c].parent # None => db.comments[c].parent \in supplied

C36_ForestHoldsEveryComment == [][\A r \in Slots : C36_Answer(r)]_vars

\* a thread of a comment, a reply and a reply to the reply, all created
\* by create_comment, was answered as one root
C36_Witness ==
    \E r \in Slots :
       /\ AnsweredComments(r)
       /\ Len(req[r].out.comments) = 1
       /\ Flatten(req[r].out.comments) = <<1, 2, 3>>
       /\ Len(req[r].out.comments[1].replies) = 1

\* --- what hangs from the roots
\* the chain of parents of c ends at a comment without parent and never
\* leaves the supplied set
RECURSIVE Rooted(_, _)
Rooted(r, c) ==
    /\ c \in Supplied(r)
    /\ ParentOf(c) = None \/ Rooted(r, ParentOf(c))

\* c has an orphan among its ancestors in the supplied set, or is one
RECURSIVE UnderOrphan(_, _)
UnderOrphan(r, c) ==
    /\ c \in Supplied(r)
    /\ c \in Orphans(r) \/ (ParentOf(c) # None /\ UnderOrphan(r, ParentOf(c)))

\* C37: the comments answered are exactly the supplied comments whose
\* chain of parents reaches a comment without parent inside the supplied
\* set; a comment below an excluded orphan is absent too, although the
\* builder has put it into the child list of its parent.
C37_ReachableAreRooted ==
    \A r \in Slots :
       AnsweredComments(r) =>
          LET flat == Flatten(req[r].out.comments)
              tree == BuildTree(db, AllComments(db, req[r].pk, 1)) IN
          /\ {flat[i] : i \in DOMAIN flat} = {c \in Supplied(r) : Rooted(r, c)}
          /\ \A c \in Supplied(r) :
                UnderOrphan(r, c) =>
                   /\ Occurrences(flat, c) = 0
                   /\ c \notin Orphans(r) =>
                         Occurrences(tree.replies[ParentOf(c)], c) = 1

\* an orphan has a reply and that reply has a reply; the post's only
\* other comment is the one answered
C37_Witness ==
    \E r \in Slots :
       /\ AnsweredComments(r)
       /\ Len(Flatten(req[r].out.comments)) = 1
       /\ \E o \in Orphans(r) : \E c, g \in Supplied(r) :
             ParentOf(c) = o /\ ParentOf(g) = c

\* --- the parent relation
\* the comments on the chain of parents above c
RECURSIVE AncestorSet(_)
AncestorSet(c) ==
    IF ParentOf(c) = None THEN {}
    ELSE {ParentOf(c)} \cup AncestorSet(ParentOf(c))

C38_ParentsOlder ==
    \A c \in DOMAIN db.comments :
       /\ ParentOf(c) # None => (ParentOf(c) \in DOMAIN db.comments /\ ParentOf(c) < c)
       /\ c \notin AncestorSet(c)
       /\ Depth(db, c) = Cardinality(AncestorSet(c))

C38_ParentKept ==
    \A c \in DOMAIN db.comments :
       c \in DOMAIN db'.comments /\ db'.comments[c].parent = db.comments[c].parent

\* C38: after any sequence of comment creations the parent of a comment
\* is a comment created before it and is never changed, so no comment is
\* its own ancestor, and the depth of every comment is the number of its
\* ancestors.
C38_ParentsAcyclicDepthCounts == []C38_ParentsOlder /\ [][C38_ParentKept]_vars

\* a reply to a reply has been created: its depth is 2
C38_Witness ==
    \E c \in DOMAIN db.comments :
       /\ Depth(db, c) = 2
       /\ AncestorSet(c) = {1, 2}
       /\ Quiescent

\* --- the two readings of the windowed karma
\* the users listed by an answered leaderboard
Listed(r) == {req[r].out[i].user : i \in DOMAIN req[r].out}

\* the answered leaderboard was not cut by its limit
Untruncated(r) == Len(req[r].out) < req[r].limit \/ req[r].limit >= Cardinality(TestUsers)

====
